---- MODULE Spec2Model ----
(***************************************************************************)
(* Model of the IKEv2 SA payload (charon/encoding/payloads/sa_payload.c):  *)
(* the payload object (critical flag, payload length, proposal list), its  *)
(* operations verify, get_length, add_proposal_substructure,               *)
(* get_ike_proposals and the two constructors.                             *)
(***************************************************************************)
EXTENDS Integers, Sequences, FiniteSets, TLC

VARIABLES critical, payload_length, proposals, op, status, ret,
          out_proposals, out_count, usage, history, records

vars == <<critical, payload_length, proposals, op, status, ret,
          out_proposals, out_count, usage, history, records>>

(***************************************************************************)
(* Bounds of the model.                                                    *)
(***************************************************************************)
MaxVerifyProposals == 3
MaxNumber == 3
MaxExtractProposals == 2
MaxRecords == 2
MaxBuildProposals == 2
MaxBuildTransforms == 2

(***************************************************************************)
(* Program constants.                                                      *)
(***************************************************************************)
SA_PAYLOAD_HEADER_LENGTH == 4
SA_PAYLOAD_CRITICAL_FLAG == FALSE
PROPOSAL_SUBSTRUCTURE_HEADER_LENGTH == 8
TRANSFORM_SUBSTRUCTURE_HEADER_LENGTH == 8
KEY_LENGTH_ATTRIBUTE_LENGTH == 4
U_INT16_RANGE == 65536

\* status_t
SUCCESS == "SUCCESS"
FAILED == "FAILED"
NOT_FOUND == "NOT_FOUND"
\* the process did not return: an outcome of undefined behaviour
ABORTED == "ABORTED"

\* protocol_id_t
IKE == "IKE"
AH == "AH"
ESP == "ESP"

\* transform_type_t
ENCRYPTION_ALGORITHM == "ENCRYPTION_ALGORITHM"
PSEUDO_RANDOM_FUNCTION == "PSEUDO_RANDOM_FUNCTION"
INTEGRITY_ALGORITHM == "INTEGRITY_ALGORITHM"
DIFFIE_HELLMAN_GROUP == "DIFFIE_HELLMAN_GROUP"
EXTENDED_SEQUENCE_NUMBERS == "EXTENDED_SEQUENCE_NUMBERS"

\* the value of a field of allocated memory that was never written
UNWRITTEN == -1

(***************************************************************************)
(* Transform substructure.                                                 *)
(***************************************************************************)
\* A transform: its type, its id, the key length attribute (present or
\* not, and its value) and the bytes its other attributes take.
Transform(type, id, has_key_length, key_length, other_attribute_bytes) ==
    [transform_type |-> type, transform_id |-> id,
     has_key_length |-> has_key_length, key_length |-> key_length,
     other_attribute_bytes |-> other_attribute_bytes]

\* transform_substructure_create_type: a key length attribute is attached
\* to the transforms of the types that take a key length.
transform_substructure_create_type(type, id, key_length) ==
    IF type \in {ENCRYPTION_ALGORITHM, PSEUDO_RANDOM_FUNCTION, INTEGRITY_ALGORITHM}
    THEN Transform(type, id, TRUE, key_length, 0)
    ELSE Transform(type, id, FALSE, 0, 0)

\* transform_substructure_t.get_key_length: the status, and the value the
\* caller's variable holds afterwards (old: what it held before).
get_key_length(t, old) ==
    IF t.has_key_length
    THEN [status |-> SUCCESS, key_length |-> t.key_length]
    ELSE [status |-> FAILED, key_length |-> old]

\* transform_substructure_t.get_length
transform_get_length(t) ==
    TRANSFORM_SUBSTRUCTURE_HEADER_LENGTH
    + (IF t.has_key_length THEN KEY_LENGTH_ATTRIBUTE_LENGTH ELSE 0)
    + t.other_attribute_bytes

(***************************************************************************)
(* Proposal substructure.                                                  *)
(***************************************************************************)
\* proposal_substructure_create: an empty proposal. self is the identity of
\* the object; verifies is what its own verify returns.
proposal_substructure_create(self) ==
    [self |-> self, proposal_number |-> 0, protocol_id |-> "UNDEFINED",
     spi_size |-> 0, transforms |-> <<>>, is_last_proposal |-> FALSE,
     verifies |-> SUCCESS]

\* proposal_substructure_t.add_transform_substructure: the last flag moves
\* to the transform added; the flag is no field of the model's transforms.
add_transform_substructure(p, t) ==
    [p EXCEPT !.transforms = Append(@, t)]

RECURSIVE SumTransformLengths(_)
SumTransformLengths(ts) ==
    IF ts = <<>> THEN 0
    ELSE transform_get_length(Head(ts)) + SumTransformLengths(Tail(ts))

\* proposal_substructure_t.get_length: header, SPI and transforms, held in
\* the proposal's own 16 bit length field.
proposal_get_length(p) ==
    (PROPOSAL_SUBSTRUCTURE_HEADER_LENGTH + p.spi_size
     + SumTransformLengths(p.transforms)) % U_INT16_RANGE

\* proposal_substructure_t.get_transform_count
get_transform_count(p) == Len(p.transforms)

(***************************************************************************)
(* The payload, as an object.                                              *)
(***************************************************************************)
Payload(c, len, ps) == [critical |-> c, payload_length |-> len, proposals |-> ps]

this == Payload(critical, payload_length, proposals)

RECURSIVE SumProposalLengths(_)
SumProposalLengths(ps) ==
    IF ps = <<>> THEN 0
    ELSE proposal_get_length(Head(ps)) + SumProposalLengths(Tail(ps))

\* compute_length: the value stored in the 16 bit field payload_length.
compute_length(ps) ==
    (SA_PAYLOAD_HEADER_LENGTH + SumProposalLengths(ps)) % U_INT16_RANGE

\* sa_payload_create
sa_payload_create ==
    Payload(SA_PAYLOAD_CRITICAL_FLAG, SA_PAYLOAD_HEADER_LENGTH, <<>>)

\* What a call used: iterators over the proposal list created and the
\* destroy calls made on them, the same for transform iterators, the calls
\* of a proposal's own verify, and the temporary array.
NoUsage ==
    [iterators |-> 0, iterator_destroys |-> 0,
     transform_iterators |-> 0, transform_iterator_destroys |-> 0,
     proposal_verifies |-> 0, allocated |-> 0, freed |-> 0, handed_over |-> 0]

(***************************************************************************)
(* verify                                                                  *)
(***************************************************************************)
\* The while loop of verify from proposal i on. proposal_number is the
\* local of that name: the loop compares with it and never assigns it.
RECURSIVE verify_loop(_, _, _, _, _)
verify_loop(ps, i, first, proposal_number, calls) ==
    IF i > Len(ps)
    THEN [status |-> SUCCESS, destroys |-> 1, calls |-> calls]
    ELSE LET current == ps[i].proposal_number
             \* the proposal's own verify, then first = FALSE and the next round
             rest == IF ps[i].verifies # SUCCESS
                     THEN [status |-> ps[i].verifies, destroys |-> 1,
                           calls |-> calls + 1]
                     ELSE verify_loop(ps, i + 1, FALSE, proposal_number, calls + 1)
         IN  IF current > proposal_number
             THEN IF first
                  THEN [status |-> FAILED, destroys |-> 1, calls |-> calls]
                  ELSE IF current # proposal_number + 1
                       THEN [status |-> FAILED, destroys |-> 1, calls |-> calls]
                       ELSE rest
             ELSE IF current < proposal_number
                  \* the iterator is destroyed here and once more after the loop
                  THEN [status |-> FAILED, destroys |-> 2, calls |-> calls]
                  ELSE rest

\* verify without the test of the critical flag.
verify_ignoring_critical(payload) ==
    LET r == verify_loop(payload.proposals, 1, TRUE, 1, 0)
    IN  [status |-> r.status,
         usage |-> [NoUsage EXCEPT !.iterators = 1,
                                   !.iterator_destroys = r.destroys,
                                   !.proposal_verifies = r.calls]]

\* verify: the status returned and what the call used.
verify(payload) ==
    IF payload.critical
    THEN [status |-> FAILED, usage |-> NoUsage]
    ELSE LET r == verify_loop(payload.proposals, 1, TRUE, 1, 0)
         IN  [status |-> r.status,
              usage |-> [NoUsage EXCEPT !.iterators = 1,
                                        !.iterator_destroys = r.destroys,
                                        !.proposal_verifies = r.calls]]

\* The outcomes of a call: destroying an iterator twice is undefined
\* behaviour, after which the call returns its status or does not return.
Outcomes(r) ==
    IF r.usage.iterator_destroys > r.usage.iterators
    THEN {r.status, ABORTED}
    ELSE {r.status}

(***************************************************************************)
(* get_ike_proposals                                                       *)
(***************************************************************************)
\* ike_proposal_t
IkeProposal(enc, enc_len, integ, integ_len, prf, prf_len, dh) ==
    [encryption_algorithm |-> enc, encryption_algorithm_key_length |-> enc_len,
     integrity_algorithm |-> integ, integrity_algorithm_key_length |-> integ_len,
     pseudo_random_function |-> prf, pseudo_random_function_key_length |-> prf_len,
     diffie_hellman_group |-> dh]

\* an element of the array allocator_alloc returns
UnwrittenIkeProposal ==
    IkeProposal(UNWRITTEN, UNWRITTEN, UNWRITTEN, UNWRITTEN, UNWRITTEN, UNWRITTEN,
                UNWRITTEN)

\* first_pass without the test of the SPI size.
RECURSIVE first_pass_without_spi_check(_, _, _)
first_pass_without_spi_check(ps, i, found_ike_proposals) ==
    IF i > Len(ps)
    THEN [failed |-> FALSE, found_ike_proposals |-> found_ike_proposals]
    ELSE IF ps[i].protocol_id = IKE
         THEN IF get_transform_count(ps[i]) # 4
              THEN [failed |-> TRUE, found_ike_proposals |-> found_ike_proposals]
              ELSE first_pass_without_spi_check(ps, i + 1, found_ike_proposals + 1)
         ELSE first_pass_without_spi_check(ps, i + 1, found_ike_proposals)

\* The first loop from proposal i on: the IKE proposals found, or the
\* failure of one of them (its transform count or its SPI size).
RECURSIVE first_pass(_, _, _)
first_pass(ps, i, found_ike_proposals) ==
    IF i > Len(ps)
    THEN [failed |-> FALSE, found_ike_proposals |-> found_ike_proposals]
    ELSE IF ps[i].protocol_id = IKE
         THEN IF get_transform_count(ps[i]) # 4 \/ ps[i].spi_size # 0
              THEN [failed |-> TRUE, found_ike_proposals |-> found_ike_proposals]
              ELSE first_pass(ps, i + 1, found_ike_proposals + 1)
         ELSE first_pass(ps, i + 1, found_ike_proposals)

NothingFound ==
    [encryption_algorithm_found |-> FALSE, integrity_algorithm_found |-> FALSE,
     pseudo_random_function_found |-> FALSE, diffie_hellman_group_found |-> FALSE]

\* The loop over the transforms of one proposal from transform j on: rec is
\* tmp_proposals[current_proposal_number], found the four flags.
RECURSIVE scan_transforms(_, _, _, _)
scan_transforms(ts, j, rec, found) ==
    IF j > Len(ts) THEN [rec |-> rec, found |-> found]
    ELSE LET t == ts[j]
             type == t.transform_type
         IN  IF type = ENCRYPTION_ALGORITHM
             THEN LET k == get_key_length(t, rec.encryption_algorithm_key_length)
                  IN  scan_transforms(ts, j + 1,
                        [rec EXCEPT !.encryption_algorithm = t.transform_id,
                                    !.encryption_algorithm_key_length = k.key_length],
                        IF k.status = SUCCESS
                        THEN [found EXCEPT !.encryption_algorithm_found = TRUE]
                        ELSE found)
             ELSE IF type = INTEGRITY_ALGORITHM
             THEN LET k == get_key_length(t, rec.integrity_algorithm_key_length)
                  IN  scan_transforms(ts, j + 1,
                        [rec EXCEPT !.integrity_algorithm = t.transform_id,
                                    !.integrity_algorithm_key_length = k.key_length],
                        IF k.status = SUCCESS
                        THEN [found EXCEPT !.integrity_algorithm_found = TRUE]
                        ELSE found)
             ELSE IF type = PSEUDO_RANDOM_FUNCTION
             THEN LET k == get_key_length(t, rec.pseudo_random_function_key_length)
                  IN  scan_transforms(ts, j + 1,
                        [rec EXCEPT !.pseudo_random_function = t.transform_id,
                                    !.pseudo_random_function_key_length = k.key_length],
                        IF k.status = SUCCESS
                        THEN [found EXCEPT !.pseudo_random_function_found = TRUE]
                        ELSE found)
             ELSE IF type = DIFFIE_HELLMAN_GROUP
             THEN scan_transforms(ts, j + 1,
                        [rec EXCEPT !.diffie_hellman_group = t.transform_id],
                        [found EXCEPT !.diffie_hellman_group_found = TRUE])
             ELSE scan_transforms(ts, j + 1, rec, found)

\* second_pass without the increment of current_proposal_number.
RECURSIVE second_pass_same_slot(_, _, _, _, _)
second_pass_same_slot(ps, i, tmp_proposals, current_proposal_number, transform_iterators) ==
    IF i > Len(ps)
    THEN [failed |-> FALSE, tmp_proposals |-> tmp_proposals,
          transform_iterators |-> transform_iterators]
    ELSE IF ps[i].protocol_id = IKE
         THEN LET s == scan_transforms(ps[i].transforms, 1,
                           tmp_proposals[current_proposal_number + 1], NothingFound)
                  tmp == [tmp_proposals EXCEPT ![current_proposal_number + 1] = s.rec]
              IN  IF \/ ~s.found.encryption_algorithm_found
                     \/ ~s.found.integrity_algorithm_found
                     \/ ~s.found.pseudo_random_function_found
                     \/ ~s.found.diffie_hellman_group_found
                  THEN [failed |-> TRUE, tmp_proposals |-> tmp,
                        transform_iterators |-> transform_iterators + 1]
                  ELSE second_pass_same_slot(ps, i + 1, tmp, current_proposal_number,
                                             transform_iterators + 1)
         ELSE second_pass_same_slot(ps, i + 1, tmp_proposals, current_proposal_number,
                                    transform_iterators)

\* The second loop from proposal i on: tmp_proposals as filled, the
\* transform iterators created (each is destroyed after its loop), and
\* whether a proposal lacked one of the four transforms.
RECURSIVE second_pass(_, _, _, _, _)
second_pass(ps, i, tmp_proposals, current_proposal_number, transform_iterators) ==
    IF i > Len(ps)
    THEN [failed |-> FALSE, tmp_proposals |-> tmp_proposals,
          transform_iterators |-> transform_iterators]
    ELSE IF ps[i].protocol_id = IKE
         THEN LET s == scan_transforms(ps[i].transforms, 1,
                           tmp_proposals[current_proposal_number + 1], NothingFound)
                  tmp == [tmp_proposals EXCEPT ![current_proposal_number + 1] = s.rec]
              IN  IF \/ ~s.found.encryption_algorithm_found
                     \/ ~s.found.integrity_algorithm_found
                     \/ ~s.found.pseudo_random_function_found
                     \/ ~s.found.diffie_hellman_group_found
                  THEN [failed |-> TRUE, tmp_proposals |-> tmp,
                        transform_iterators |-> transform_iterators + 1]
                  ELSE second_pass(ps, i + 1, tmp, current_proposal_number + 1,
                                   transform_iterators + 1)
         ELSE second_pass(ps, i + 1, tmp_proposals, current_proposal_number,
                          transform_iterators)

\* What get_ike_proposals leaves of the caller's two output variables.
NotWritten == [written |-> FALSE, value |-> <<>>]
NoCount == [written |-> FALSE, value |-> 0]

\* get_ike_proposals without the return of NOT_FOUND.
get_ike_proposals_without_not_found(payload) ==
    LET ps == payload.proposals
        p1 == first_pass(ps, 1, 0)
        n == p1.found_ike_proposals
        p2 == second_pass(ps, 1, [k \in 1..n |-> UnwrittenIkeProposal], 0, 0)
    IN  IF p1.failed
        THEN [status |-> FAILED, proposals |-> NotWritten, proposal_count |-> NoCount,
              usage |-> [NoUsage EXCEPT !.iterators = 1, !.iterator_destroys = 1]]
        ELSE IF p2.failed
        THEN [status |-> FAILED, proposals |-> NotWritten, proposal_count |-> NoCount,
              usage |-> [NoUsage EXCEPT
                           !.iterators = 1, !.iterator_destroys = 0,
                           !.transform_iterators = p2.transform_iterators,
                           !.transform_iterator_destroys = p2.transform_iterators,
                           !.allocated = 1, !.freed = 1]]
        ELSE [status |-> SUCCESS,
              proposals |-> [written |-> TRUE, value |-> p2.tmp_proposals],
              proposal_count |-> [written |-> TRUE, value |-> n],
              usage |-> [NoUsage EXCEPT
                           !.iterators = 1, !.iterator_destroys = 1,
                           !.transform_iterators = p2.transform_iterators,
                           !.transform_iterator_destroys = p2.transform_iterators,
                           !.allocated = 1, !.handed_over = 1]]

\* get_ike_proposals: the status, the two outputs and what the call used.
get_ike_proposals(payload) ==
    LET ps == payload.proposals
        p1 == first_pass(ps, 1, 0)
        n == p1.found_ike_proposals
        p2 == second_pass(ps, 1, [k \in 1..n |-> UnwrittenIkeProposal], 0, 0)
    IN  IF p1.failed
        THEN [status |-> FAILED, proposals |-> NotWritten, proposal_count |-> NoCount,
              usage |-> [NoUsage EXCEPT !.iterators = 1, !.iterator_destroys = 1]]
        ELSE IF n = 0
        THEN [status |-> NOT_FOUND, proposals |-> NotWritten, proposal_count |-> NoCount,
              usage |-> [NoUsage EXCEPT !.iterators = 1, !.iterator_destroys = 1]]
        ELSE IF p2.failed
        \* the iterator is reset and not destroyed; the array is freed
        THEN [status |-> FAILED, proposals |-> NotWritten, proposal_count |-> NoCount,
              usage |-> [NoUsage EXCEPT
                           !.iterators = 1, !.iterator_destroys = 0,
                           !.transform_iterators = p2.transform_iterators,
                           !.transform_iterator_destroys = p2.transform_iterators,
                           !.allocated = 1, !.freed = 1]]
        ELSE [status |-> SUCCESS,
              proposals |-> [written |-> TRUE, value |-> p2.tmp_proposals],
              proposal_count |-> [written |-> TRUE, value |-> n],
              usage |-> [NoUsage EXCEPT
                           !.iterators = 1, !.iterator_destroys = 1,
                           !.transform_iterators = p2.transform_iterators,
                           !.transform_iterator_destroys = p2.transform_iterators,
                           !.allocated = 1, !.handed_over = 1]]

(***************************************************************************)
(* add_proposal_substructure, get_length, the constructor from records     *)
(***************************************************************************)
\* add_proposal_substructure that leaves the last flag of the former last
\* proposal set.
add_proposal_substructure_keeping_flag(payload, proposal) ==
    LET added == Append(payload.proposals,
                        [proposal EXCEPT !.is_last_proposal = TRUE])
    IN  [payload EXCEPT !.proposals = added,
                        !.payload_length = compute_length(added)]

\* add_proposal_substructure: the payload afterwards.
add_proposal_substructure(payload, proposal) ==
    LET ps == payload.proposals
        cleared == IF Len(ps) > 0
                   THEN [ps EXCEPT ![Len(ps)].is_last_proposal = FALSE]
                   ELSE ps
        added == Append(cleared, [proposal EXCEPT !.is_last_proposal = TRUE])
    IN  [payload EXCEPT !.proposals = added,
                        !.payload_length = compute_length(added)]

\* get_length that returns the stored length without computing it.
get_length_cached(payload) == payload

\* get_length: the payload afterwards; the value returned is its
\* payload_length.
get_length(payload) ==
    [payload EXCEPT !.payload_length = compute_length(payload.proposals)]

\* The proposal built with the ids of the integrity algorithm and of the
\* pseudo random function taken from each other's field.
ike_proposal_substructure_swapped(r, i) ==
    LET p0 == [proposal_substructure_create(i + 1) EXCEPT
                  !.protocol_id = IKE, !.proposal_number = i + 1]
        p1 == add_transform_substructure(p0,
                  transform_substructure_create_type(ENCRYPTION_ALGORITHM,
                      r.encryption_algorithm, r.encryption_algorithm_key_length))
        p2 == add_transform_substructure(p1,
                  transform_substructure_create_type(PSEUDO_RANDOM_FUNCTION,
                      r.integrity_algorithm, r.pseudo_random_function_key_length))
        p3 == add_transform_substructure(p2,
                  transform_substructure_create_type(INTEGRITY_ALGORITHM,
                      r.pseudo_random_function, r.integrity_algorithm_key_length))
    IN  add_transform_substructure(p3,
                  transform_substructure_create_type(DIFFIE_HELLMAN_GROUP,
                      r.diffie_hellman_group, 0))

\* The proposal the loop of sa_payload_create_from_ike_proposals builds from
\* proposals[i] (i counts from 0).
ike_proposal_substructure(r, i) ==
    LET p0 == [proposal_substructure_create(i + 1) EXCEPT
                  !.protocol_id = IKE, !.proposal_number = i + 1]
        p1 == add_transform_substructure(p0,
                  transform_substructure_create_type(ENCRYPTION_ALGORITHM,
                      r.encryption_algorithm, r.encryption_algorithm_key_length))
        p2 == add_transform_substructure(p1,
                  transform_substructure_create_type(PSEUDO_RANDOM_FUNCTION,
                      r.pseudo_random_function, r.pseudo_random_function_key_length))
        p3 == add_transform_substructure(p2,
                  transform_substructure_create_type(INTEGRITY_ALGORITHM,
                      r.integrity_algorithm, r.integrity_algorithm_key_length))
    IN  add_transform_substructure(p3,
                  transform_substructure_create_type(DIFFIE_HELLMAN_GROUP,
                      r.diffie_hellman_group, 0))

RECURSIVE create_loop(_, _, _)
create_loop(payload, rs, i) ==
    IF i >= Len(rs) THEN payload
    ELSE create_loop(add_proposal_substructure(payload,
                         ike_proposal_substructure(rs[i + 1], i)), rs, i + 1)

\* sa_payload_create_from_ike_proposals
sa_payload_create_from_ike_proposals(rs) ==
    create_loop(sa_payload_create, rs, 0)

(***************************************************************************)
(* Inputs.                                                                 *)
(***************************************************************************)
SeqUpTo(S, n) == UNION {[1..k -> S] : k \in 0..n}

\* A proposal list as the parser leaves it: the objects in wire order, the
\* last flag on the last one.
Parsed(ps) ==
    [i \in 1..Len(ps) |-> [ps[i] EXCEPT !.self = i,
                                        !.is_last_proposal = (i = Len(ps))]]

\* Proposals for verify: a number and the result of the proposal's own verify.
VerifyProposals ==
    {[proposal_substructure_create(0) EXCEPT
         !.proposal_number = n, !.protocol_id = ESP, !.verifies = v] :
     n \in 0..MaxNumber, v \in {SUCCESS, FAILED}}

\* Proposals for get_ike_proposals: the transforms of a record in an order,
\* whole or with a defect.
ConstructionOrder ==
    <<ENCRYPTION_ALGORITHM, PSEUDO_RANDOM_FUNCTION, INTEGRITY_ALGORITHM,
      DIFFIE_HELLMAN_GROUP>>
WireOrder ==
    <<DIFFIE_HELLMAN_GROUP, INTEGRITY_ALGORITHM, PSEUDO_RANDOM_FUNCTION,
      ENCRYPTION_ALGORITHM>>

TransformFor(r, type) ==
    IF type = ENCRYPTION_ALGORITHM
    THEN Transform(type, r.encryption_algorithm, TRUE,
                   r.encryption_algorithm_key_length, 0)
    ELSE IF type = INTEGRITY_ALGORITHM
    THEN Transform(type, r.integrity_algorithm, TRUE,
                   r.integrity_algorithm_key_length, 0)
    ELSE IF type = PSEUDO_RANDOM_FUNCTION
    THEN Transform(type, r.pseudo_random_function, TRUE,
                   r.pseudo_random_function_key_length, 0)
    ELSE Transform(type, r.diffie_hellman_group, FALSE, 0, 0)

Defects == {"none", "one_less", "one_more", "other_type", "no_key_length"}

TransformList(r, order, defect) ==
    LET whole == [k \in 1..Len(order) |-> TransformFor(r, order[k])]
        other == Transform(EXTENDED_SEQUENCE_NUMBERS, 1, FALSE, 0, 0)
    IN  IF defect = "one_less" THEN SubSeq(whole, 1, Len(whole) - 1)
        ELSE IF defect = "one_more" THEN Append(whole, other)
        ELSE IF defect = "other_type" THEN [whole EXCEPT ![2] = other]
        ELSE IF defect = "no_key_length"
        THEN [k \in 1..Len(whole) |->
                 IF whole[k].transform_type = ENCRYPTION_ALGORITHM
                 THEN [whole[k] EXCEPT !.has_key_length = FALSE, !.key_length = 0]
                 ELSE whole[k]]
        ELSE whole

ExtractVariants ==
    {<<IkeProposal(1, 128, 2, 160, 3, 256, 4), ConstructionOrder>>,
     <<IkeProposal(7, 0, 7, 0, 7, 0, 7), WireOrder>>}

ExtractProposals ==
    {[proposal_substructure_create(0) EXCEPT
         !.proposal_number = 1, !.protocol_id = shape[1], !.spi_size = shape[2],
         !.transforms = TransformList(v[1], v[2], d)] :
     shape \in {<<IKE, 0>>, <<IKE, 4>>, <<ESP, 4>>, <<AH, 0>>},
     v \in ExtractVariants, d \in Defects}

\* Records for sa_payload_create_from_ike_proposals.
IkeProposals ==
    {IkeProposal(enc, len[1], integ, len[2], prf, len[3], dh) :
     enc \in {1, 2}, integ \in {1, 2}, prf \in {1, 2}, dh \in {1, 2},
     len \in {<<128, 160, 256>>, <<0, 0, 0>>}}

\* Proposals and transforms for building a payload by hand.
BuildProposals(self) ==
    {[proposal_substructure_create(self) EXCEPT
         !.proposal_number = 1, !.protocol_id = ESP, !.spi_size = 4,
         !.is_last_proposal = last] :
     last \in BOOLEAN}

BuildTransforms ==
    {transform_substructure_create_type(ENCRYPTION_ALGORITHM, 1, 128),
     Transform(ENCRYPTION_ALGORITHM, 1, TRUE, 128, 30000)}

(***************************************************************************)
(* State and actions.                                                      *)
(***************************************************************************)
NoRecords == [given |-> FALSE, value |-> <<>>]

\* The state after sa_payload_create().
Init ==
    /\ critical = sa_payload_create.critical
    /\ payload_length = sa_payload_create.payload_length
    /\ proposals = sa_payload_create.proposals
    /\ op = "sa_payload_create"
    /\ status = "NONE"
    /\ ret = 0
    /\ out_proposals = NotWritten
    /\ out_count = NoCount
    /\ usage = NoUsage
    /\ history = <<>>
    /\ records = NoRecords

\* The parser fills a fresh payload through sa_payload_encodings: the
\* critical flag, the length and the proposals, here proposals for verify.
ParseForVerify ==
    /\ op = "sa_payload_create"
    /\ \E c \in BOOLEAN, ps \in SeqUpTo(VerifyProposals, MaxVerifyProposals) :
          /\ critical' = c
          /\ proposals' = Parsed(ps)
          /\ payload_length' = compute_length(Parsed(ps))
    /\ op' = "parse"
    /\ UNCHANGED <<status, ret, out_proposals, out_count, usage, history, records>>

\* The same, with proposals for get_ike_proposals.
ParseForExtract ==
    /\ op = "sa_payload_create"
    /\ \E ps \in SeqUpTo(ExtractProposals, MaxExtractProposals) :
          /\ proposals' = Parsed(ps)
          /\ payload_length' = compute_length(Parsed(ps))
    /\ op' = "parse"
    /\ UNCHANGED <<critical, status, ret, out_proposals, out_count, usage, history,
                   records>>

\* A call of verify.
Verify ==
    /\ op \in {"sa_payload_create", "parse"}
    /\ LET r == verify(this)
       IN  /\ status' \in Outcomes(r)
           /\ usage' = r.usage
    /\ op' = "verify"
    /\ UNCHANGED <<critical, payload_length, proposals, ret, out_proposals, out_count,
                   history, records>>

\* A call of get_ike_proposals with two fresh output variables.
GetIkeProposals ==
    /\ op \in {"sa_payload_create", "parse", "sa_payload_create_from_ike_proposals"}
    /\ LET r == get_ike_proposals(this)
       IN  /\ status' = r.status
           /\ out_proposals' = r.proposals
           /\ out_count' = r.proposal_count
           /\ usage' = r.usage
    /\ op' = "get_ike_proposals"
    /\ UNCHANGED <<critical, payload_length, proposals, ret, history, records>>

\* A call of sa_payload_create_from_ike_proposals; records keeps its argument.
CreateFromIkeProposals ==
    /\ op = "sa_payload_create"
    /\ \E rs \in SeqUpTo(IkeProposals, MaxRecords) :
          LET payload == sa_payload_create_from_ike_proposals(rs)
          IN  /\ critical' = payload.critical
              /\ payload_length' = payload.payload_length
              /\ proposals' = payload.proposals
              /\ records' = [given |-> TRUE, value |-> rs]
    /\ op' = "sa_payload_create_from_ike_proposals"
    /\ UNCHANGED <<status, ret, out_proposals, out_count, usage, history>>

\* A call of add_proposal_substructure with a proposal not yet in the payload.
AddProposalSubstructure ==
    /\ Len(proposals) < MaxBuildProposals
    /\ \E p \in BuildProposals(Len(history) + 1) :
          LET payload == add_proposal_substructure(this, p)
          IN  /\ critical' = payload.critical
              /\ payload_length' = payload.payload_length
              /\ proposals' = payload.proposals
              /\ history' = Append(history, p.self)
    /\ op' = "add_proposal_substructure"
    /\ UNCHANGED <<status, ret, out_proposals, out_count, usage, records>>

\* A call of get_length.
GetLength ==
    /\ LET payload == get_length(this)
       IN  /\ payload_length' = payload.payload_length
           /\ ret' = payload.payload_length
    /\ op' = "get_length"
    /\ UNCHANGED <<critical, proposals, status, out_proposals, out_count, usage,
                   history, records>>

\* The caller reaches a proposal of the payload through
\* create_proposal_substructure_iterator and adds a transform to it.
AddTransformToContained ==
    /\ \E i \in 1..Len(proposals), t \in BuildTransforms :
          /\ Len(proposals[i].transforms) < MaxBuildTransforms
          /\ proposals' = [proposals EXCEPT ![i] = add_transform_substructure(@, t)]
    /\ op' = "add_transform_substructure"
    /\ UNCHANGED <<critical, payload_length, status, ret, out_proposals, out_count,
                   usage, history, records>>

NextVerify == ParseForVerify \/ Verify
NextExtract == ParseForExtract \/ CreateFromIkeProposals \/ GetIkeProposals
NextBuild == AddProposalSubstructure \/ GetLength \/ AddTransformToContained

\* Parsed payloads and verify.
SpecVerify == Init /\ [][NextVerify]_vars
\* Parsed and constructed payloads and get_ike_proposals.
SpecExtract == Init /\ [][NextExtract]_vars
\* Payloads built by hand and get_length.
SpecBuild == Init /\ [][NextBuild]_vars


(***************************************************************************)
(* Properties of verify (SpecVerify).                                      *)
(***************************************************************************)
NumberOf(i) == proposals[i].proposal_number

AllProposalsVerify == \A i \in 1..Len(proposals) : proposals[i].verifies = SUCCESS

\* The first number is 1 and every later number repeats the one before it
\* or is one more.
NumberingAccepted ==
    Len(proposals) > 0 =>
        /\ NumberOf(1) = 1
        /\ \A i \in 2..Len(proposals) :
              NumberOf(i) = NumberOf(i - 1) \/ NumberOf(i) = NumberOf(i - 1) + 1

\* The first number is not 1, or a number is more than one above the one
\* before it, or below it.
NumberingViolated ==
    /\ Len(proposals) > 0
    /\ \/ NumberOf(1) # 1
       \/ \E i \in 2..Len(proposals) :
             NumberOf(i) > NumberOf(i - 1) + 1 \/ NumberOf(i) < NumberOf(i - 1)

\* C1: verify returns SUCCESS for a payload that is not critical, whose
\* proposals pass their own verify and whose numbers start at 1 and each
\* repeat the number before or exceed it by one ([1,2,3], [1,1,2]).
C1_VerifyAcceptsNumbering ==
    (op = "verify" /\ ~critical /\ AllProposalsVerify /\ NumberingAccepted)
        => status = SUCCESS

\* C2: the status verify returns is FAILED whenever the first number is not
\* 1, a number is more than one above the number before it, or a number is
\* below the number before it ([1,3], [2,1], [1,2,1]).
C2_VerifyRejectsViolations ==
    (op = "verify" /\ NumberingViolated /\ status # ABORTED) => status = FAILED

\* C3: with the critical flag set verify returns FAILED for every proposal
\* list and calls no proposal's own verify.
C3_CriticalRejected ==
    (op = "verify" /\ critical)
        => (status = FAILED /\ usage.proposal_verifies = 0)

\* C3 witness: verify has run on a critical payload of two proposals that
\* is valid otherwise.
C3_Witness ==
    /\ op = "verify" /\ critical /\ status = FAILED
    /\ Len(proposals) = 2 /\ NumberOf(2) = 2
    /\ AllProposalsVerify /\ NumberingAccepted

(***************************************************************************)
(* Properties of get_ike_proposals (SpecExtract).                          *)
(***************************************************************************)
RequiredTypes ==
    {ENCRYPTION_ALGORITHM, INTEGRITY_ALGORITHM, PSEUDO_RANDOM_FUNCTION,
     DIFFIE_HELLMAN_GROUP}

KeyedTypes ==
    {ENCRYPTION_ALGORITHM, INTEGRITY_ALGORITHM, PSEUDO_RANDOM_FUNCTION}

TransformsOfType(p, type) ==
    {k \in 1..Len(p.transforms) : p.transforms[k].transform_type = type}

IsIke(p) == p.protocol_id = IKE

IkeIndices == {i \in 1..Len(proposals) : IsIke(proposals[i])}

\* The k-th proposal with protocol id IKE, in the order of the list.
KthIke(k) ==
    proposals[CHOOSE i \in IkeIndices :
                 Cardinality({j \in IkeIndices : j <= i}) = k]

\* An IKE proposal the extraction has to refuse.
Malformed(p) ==
    /\ IsIke(p)
    /\ \/ Len(p.transforms) # 4
       \/ p.spi_size # 0
       \/ \E type \in RequiredTypes : TransformsOfType(p, type) = {}

\* Four transforms, no SPI, one transform of each required type.
WellShaped(p) ==
    /\ Len(p.transforms) = 4
    /\ p.spi_size = 0
    /\ \A type \in RequiredTypes : Cardinality(TransformsOfType(p, type)) = 1

HasKeyLengths(p) ==
    \A k \in 1..Len(p.transforms) :
        p.transforms[k].transform_type \in KeyedTypes
            => p.transforms[k].has_key_length

TheTransform(p, type) ==
    p.transforms[CHOOSE k \in TransformsOfType(p, type) : TRUE]

OutputsUnwritten == ~out_proposals.written /\ ~out_count.written

\* The record holds the ids of the proposal's four transforms.
HoldsIds(rec, p) ==
    /\ rec.encryption_algorithm = TheTransform(p, ENCRYPTION_ALGORITHM).transform_id
    /\ rec.integrity_algorithm = TheTransform(p, INTEGRITY_ALGORITHM).transform_id
    /\ rec.pseudo_random_function
           = TheTransform(p, PSEUDO_RANDOM_FUNCTION).transform_id
    /\ rec.diffie_hellman_group = TheTransform(p, DIFFIE_HELLMAN_GROUP).transform_id

\* The call returned SUCCESS with one record per IKE proposal, in order.
ExtractedInOrder ==
    /\ status = SUCCESS
    /\ out_count.written /\ out_count.value = Cardinality(IkeIndices)
    /\ out_proposals.written /\ Len(out_proposals.value) = Cardinality(IkeIndices)
    /\ \A k \in 1..Cardinality(IkeIndices) :
          HoldsIds(out_proposals.value[k], KthIke(k))

\* C4 as claimed: for every array of records, of every count including 0,
\* get_ike_proposals on sa_payload_create_from_ike_proposals(records)
\* returns SUCCESS and an array equal to records.
C4_BridgeInverseAnyCount ==
    (op = "get_ike_proposals" /\ records.given)
        => /\ status = SUCCESS
           /\ out_count.written /\ out_count.value = Len(records.value)
           /\ out_proposals.written /\ out_proposals.value = records.value

\* C4 as amended: for every array of at least one record, get_ike_proposals
\* on sa_payload_create_from_ike_proposals(records) returns SUCCESS, the
\* count of records and an array equal to records field by field, in order.
C4_BridgeInverse ==
    (op = "get_ike_proposals" /\ records.given /\ Len(records.value) >= 1)
        => /\ status = SUCCESS
           /\ out_count.written /\ out_count.value = Len(records.value)
           /\ out_proposals.written /\ out_proposals.value = records.value

\* C4 witness: two records that differ have made the round trip.
C4_Witness ==
    /\ op = "get_ike_proposals" /\ records.given /\ status = SUCCESS
    /\ Len(records.value) = 2
    /\ records.value[1] # records.value[2]
    /\ records.value[1].integrity_algorithm # records.value[1].pseudo_random_function

\* C5: if an IKE proposal of the payload, at any position, has a transform
\* count other than 4, an SPI or no transform of a required type,
\* get_ike_proposals returns FAILED and writes neither output.
C5_StructuralFailure ==
    (op = "get_ike_proposals" /\ \E i \in 1..Len(proposals) : Malformed(proposals[i]))
        => (status = FAILED /\ OutputsUnwritten)

\* C5 witness: a well-formed IKE proposal is followed by one of four
\* transforms that lacks a required type, and the call has failed.
C5_Witness ==
    /\ op = "get_ike_proposals" /\ status = FAILED
    /\ Len(proposals) = 2
    /\ IsIke(proposals[1]) /\ WellShaped(proposals[1]) /\ HasKeyLengths(proposals[1])
    /\ Malformed(proposals[2])
    /\ Len(proposals[2].transforms) = 4 /\ proposals[2].spi_size = 0

\* C6 as claimed: if the payload holds an IKE proposal and every IKE
\* proposal has four transforms, no SPI and one transform of each required
\* type, get_ike_proposals returns SUCCESS, the count of IKE proposals and
\* the ids of the k-th IKE proposal in the k-th record.
C6_ExtractionOfWellShaped ==
    (/\ op = "get_ike_proposals"
     /\ IkeIndices # {}
     /\ \A i \in IkeIndices : WellShaped(proposals[i]))
        => ExtractedInOrder

\* C6 as amended: the same, for payloads whose IKE proposals carry a key
\* length attribute on their encryption, integrity and PRF transforms.
C6_Extraction ==
    (/\ op = "get_ike_proposals"
     /\ IkeIndices # {}
     /\ \A i \in IkeIndices : WellShaped(proposals[i]) /\ HasKeyLengths(proposals[i]))
        => ExtractedInOrder

\* C6 witness: two IKE proposals with different ids, the second with its
\* transforms in another order, have been extracted.
C6_Witness ==
    /\ op = "get_ike_proposals" /\ status = SUCCESS /\ ~records.given
    /\ Len(proposals) = 2 /\ out_count.value = 2
    /\ proposals[1].transforms[1].transform_type = ENCRYPTION_ALGORITHM
    /\ proposals[2].transforms[1].transform_type = DIFFIE_HELLMAN_GROUP

\* C6 witness of the other case: a proposal that is not IKE adds no record.
C6_WitnessSkipped ==
    /\ op = "get_ike_proposals" /\ status = SUCCESS
    /\ Len(proposals) = 2 /\ out_count.value = 1
    /\ ~IsIke(proposals[1])

\* C7: for a payload without an IKE proposal get_ike_proposals returns
\* NOT_FOUND and writes neither output.
C7_NotFound ==
    (op = "get_ike_proposals" /\ IkeIndices = {})
        => (status = NOT_FOUND /\ OutputsUnwritten)

\* C7 witness: the call has run on two proposals that are not IKE, one of
\* them with three transforms and an SPI.
C7_Witness ==
    /\ op = "get_ike_proposals" /\ status = NOT_FOUND
    /\ Len(proposals) = 2
    /\ proposals[1].protocol_id = ESP /\ proposals[2].protocol_id = AH
    /\ Len(proposals[1].transforms) = 3 /\ proposals[1].spi_size = 4

\* C10: on every return of verify and of get_ike_proposals each iterator
\* created has been destroyed exactly once, and the temporary array has
\* been handed to the caller (on SUCCESS) or freed exactly once.
C10_ReleasedExactlyOnce ==
    op \in {"verify", "get_ike_proposals"}
        => /\ usage.iterator_destroys = usage.iterators
           /\ usage.transform_iterator_destroys = usage.transform_iterators
           /\ usage.freed + usage.handed_over = usage.allocated
           /\ (usage.handed_over = 1) <=> (op = "get_ike_proposals" /\ status = SUCCESS)

(***************************************************************************)
(* Properties of building a payload (SpecBuild).                           *)
(***************************************************************************)
\* C8: after one or more calls of add_proposal_substructure the list holds
\* the proposals added in the order of the calls, and exactly the last of
\* them, the one added last, has its last flag set.
C8_LastFlag ==
    Len(history) >= 1
        => /\ Len(proposals) = Len(history)
           /\ \A k \in 1..Len(proposals) : proposals[k].self = history[k]
           /\ \A k \in 1..Len(proposals) :
                 proposals[k].is_last_proposal <=> (k = Len(proposals))
           /\ Cardinality({k \in 1..Len(proposals) : proposals[k].is_last_proposal}) = 1

\* C8 witness: two proposals have been added, and the first one, which was
\* the last for a while, has been changed since.
C8_Witness ==
    /\ Len(history) = 2 /\ Len(proposals) = 2
    /\ proposals[1].transforms # <<>>
    /\ proposals[2].is_last_proposal

\* The lengths of the proposals contained, summed.
RECURSIVE LengthsUpTo(_)
LengthsUpTo(k) ==
    IF k = 0 THEN 0 ELSE LengthsUpTo(k - 1) + proposal_get_length(proposals[k])

\* C9 as claimed: in every state the stored payload_length is 4 plus the
\* lengths of the proposals contained, and get_length returns that sum.
C9_LengthAlwaysDerived ==
    /\ payload_length = 4 + LengthsUpTo(Len(proposals))
    /\ op = "get_length" => ret = 4 + LengthsUpTo(Len(proposals))

\* C9 as amended: right after sa_payload_create, add_proposal_substructure
\* and get_length the stored payload_length is 4 plus the lengths of the
\* proposals contained, modulo 2^16, and get_length returns that value.
C9_LengthDerived ==
    op \in {"sa_payload_create", "add_proposal_substructure", "get_length"}
        => /\ payload_length = (4 + LengthsUpTo(Len(proposals))) % 65536
           /\ op = "get_length" => ret = payload_length

\* C9 witness: get_length has run after a transform was added to a
\* contained proposal, and returns the new length.
C9_Witness ==
    /\ op = "get_length"
    /\ Len(proposals) = 1
    /\ Len(proposals[1].transforms) = 1
    /\ ret = 4 + proposal_get_length(proposals[1])
    /\ ret > 4 + 8 + proposals[1].spi_size

\* C9 witness of the other case: the sum has passed 2^16.
C9_WitnessWrapped ==
    /\ op = "get_length"
    /\ 4 + LengthsUpTo(Len(proposals)) >= 65536
    /\ ret < 65536

====
